---- MODULE Spec2Model ----
(***************************************************************************)
(* Wall-length editing of the foundation plan analyzer:                    *)
(*   - the feet/inches parser and formatter of the walls table,            *)
(*   - the length parsing loop and metric recalculation of the             *)
(*     update-wall route,                                                  *)
(*   - the walls table, the metrics display and the materials quotation    *)
(*     that sit on the analysis page.                                      *)
(* Strings are sequences of one-character strings.  Numbers are records    *)
(* [nan, v]: v is an integer count of a unit named at each use (inches,    *)
(* tenths of a foot, ...) and nan marks the JavaScript NaN.                *)
(***************************************************************************)
EXTENDS Integers, Sequences, FiniteSets, TLC

(***************************************************************************)
(* Bounds of the model.                                                    *)
(***************************************************************************)
MaxParseFeet == 12

MaxInches == 11

(***************************************************************************)
(* Numbers.                                                                *)
(***************************************************************************)
Num(n) == [nan |-> FALSE, v |-> n]

NaN == [nan |-> TRUE, v |-> 0]

\* a + b of JavaScript, on values that count the same unit
NumAdd(a, b) == IF a.nan \/ b.nan THEN NaN ELSE Num(a.v + b.v)

\* round num/den (den > 0) to the nearest integer, ties away from zero:
\* Number.prototype.toFixed picks the larger n on a tie and handles a
\* negative x as "-" followed by the digits of -x
RoundDiv(num, den) ==
    IF num >= 0 THEN (2 * num + den) \div (2 * den)
    ELSE 0 - ((2 * (0 - num) + den) \div (2 * den))

\* Math.ceil(num/den), den > 0
CeilDiv(num, den) == 0 - ((0 - num) \div den)

(***************************************************************************)
(* Characters and strings.                                                 *)
(***************************************************************************)
Digits == <<"0", "1", "2", "3", "4", "5", "6", "7", "8", "9">>

IsDigit(c) == \E d \in 1..10 : Digits[d] = c

DigitVal(c) == (CHOOSE d \in 1..10 : Digits[d] = c) - 1

IsSpace(c) == c = " "

\* String(n) of an integer n
RECURSIVE NatToString(_)
NatToString(n) ==
    IF n < 10 THEN <<Digits[n + 1]>>
    ELSE NatToString(n \div 10) \o <<Digits[(n % 10) + 1]>>

\* String(x) of a number x that is an integer or NaN
NumberToString(x) ==
    IF x.nan THEN <<"N", "a", "N">>
    ELSE IF x.v < 0 THEN <<"-">> \o NatToString(0 - x.v)
    ELSE NatToString(x.v)

\* s.replace(/c/g, '') for a single character c
RECURSIVE RemoveChar(_, _)
RemoveChar(s, c) ==
    IF s = <<>> THEN <<>>
    ELSE IF Head(s) = c THEN RemoveChar(Tail(s), c)
    ELSE <<Head(s)>> \o RemoveChar(Tail(s), c)

\* s.replace(/\\"/g, '"').replace(/"/g, '"'): a backslash followed by a
\* double quote becomes the double quote; the second replace maps the
\* straight double quote to itself
RECURSIVE NormalizeQuotes(_)
NormalizeQuotes(s) ==
    IF s = <<>> THEN <<>>
    ELSE IF Len(s) >= 2 /\ s[1] = "\\" /\ s[2] = "\""
         THEN <<"\"">> \o NormalizeQuotes(Tail(Tail(s)))
    ELSE <<Head(s)>> \o NormalizeQuotes(Tail(s))

\* s.split(c): the pieces of s between the occurrences of c
RECURSIVE Split(_, _)
Split(s, c) ==
    IF \A k \in 1..Len(s) : s[k] # c THEN <<s>>
    ELSE LET p == CHOOSE k \in 1..Len(s) : s[k] = c /\ \A j \in 1..(k - 1) : s[j] # c
         IN  <<SubSeq(s, 1, p - 1)>> \o Split(SubSeq(s, p + 1, Len(s)), c)

RECURSIVE TrimLeft(_)
TrimLeft(s) == IF s # <<>> /\ IsSpace(Head(s)) THEN TrimLeft(Tail(s)) ELSE s

RECURSIVE TrimRight(_)
TrimRight(s) ==
    IF s # <<>> /\ IsSpace(s[Len(s)]) THEN TrimRight(SubSeq(s, 1, Len(s) - 1)) ELSE s

Trim(s) == TrimRight(TrimLeft(s))

\* the value of the longest prefix of decimal digits of s, given the value
\* acc of the digits already read
RECURSIVE DigitPrefix(_, _)
DigitPrefix(s, acc) ==
    IF s # <<>> /\ IsDigit(Head(s)) THEN DigitPrefix(Tail(s), 10 * acc + DigitVal(Head(s)))
    ELSE acc

\* parseInt(s, 10): leading white space, an optional sign, then the longest
\* prefix of digits; NaN when there is no digit
parseInt(s) ==
    LET t    == TrimLeft(s)
        neg  == t # <<>> /\ Head(t) = "-"
        sign == t # <<>> /\ Head(t) \in {"-", "+"}
        body == IF sign THEN Tail(t) ELSE t
    IN  IF body = <<>> \/ ~IsDigit(Head(body)) THEN NaN
        ELSE IF neg THEN Num(0 - DigitPrefix(body, 0))
        ELSE Num(DigitPrefix(body, 0))

(***************************************************************************)
(* walls-table.tsx: formatFeetInches and parseFeetInches.                  *)
(***************************************************************************)
\* `${feet}'-${inches}"` for two numbers
formatFeetInches(feet, inches) ==
    NumberToString(feet) \o <<"'", "-">> \o NumberToString(inches) \o <<"\"">>

\* the inches token read without removing the hyphens
TableInchPartKeepHyphen(part) == Trim(RemoveChar(part, "\""))

\* the inches token as the walls table reads it: inch symbol and hyphens
\* removed, then trimmed
TableInchPart(part) == Trim(RemoveChar(RemoveChar(part, "\""), "-"))

\* the inches token as the update-wall route reads it: inch symbol removed,
\* then trimmed
RouteInchPart(part) == Trim(RemoveChar(part, "\""))

\* if (inchPart && inchPart !== '0') inches = parseInt(inchPart, 10)
InchesOf(inchPart) ==
    IF inchPart # <<>> /\ inchPart # <<"0">> THEN parseInt(inchPart) ELSE Num(0)

parseFeetInches(lengthStr) ==
    LET parts == Split(NormalizeQuotes(lengthStr), "'")
    IN  [feet   |-> parseInt(parts[1]),
         inches |-> IF Len(parts) > 1 THEN InchesOf(TableInchPart(parts[2])) ELSE Num(0)]

(***************************************************************************)
(* update-wall/route.ts: the length parsing of the recalculation loop.     *)
(***************************************************************************)
RouteParse(lengthStr) ==
    LET parts == Split(NormalizeQuotes(lengthStr), "'")
    IN  [feet   |-> parseInt(parts[1]),
         inches |-> IF Len(parts) > 1 THEN InchesOf(RouteInchPart(parts[2])) ELSE Num(0)]

(***************************************************************************)
(* The stored analysis (public/results/<id>/analysis_results.json).        *)
(***************************************************************************)
NumWalls == 2

WallHeightFeet == 8

WallThicknessInches == 6

\* wall_thickness_feet (the thickness in feet), in hundredths of a foot
WallThicknessFeet100 == (100 * WallThicknessInches) \div 12

CubicFeetPerCubicYard == 27

\* the feet and the inches typed into the inputs of the walls table
EditFeetValues == {0, 1}

EditInchesValues == {0, 6}

FirstWallIds == {0, 1}

\* a wall_thickness or wall_height that the analysis does not carry
\* (undefined, falsy in the || chains that read it)
Absent == 0

Corner(k) == [id |-> k, x |-> 10 * k, y |-> 5 * k]

Wall(id, k, len) ==
    [id |-> id, start_corner_id |-> k, end_corner_id |-> (k % NumWalls) + 1,
     length_pixels |-> 100 * k, length |-> len]

\* feet + inches / 12 of a parsed length, in inches
ToDecimalFeet(p) ==
    IF p.feet.nan \/ p.inches.nan THEN NaN ELSE Num(12 * p.feet.v + p.inches.v)

\* x.toFixed(1) of x = num/den, in tenths
ToFixed1(num, den) == IF num.nan THEN NaN ELSE Num(RoundDiv(10 * num.v, den))

\* a canonical decimal numeral: digits only, no leading zero
IsNumeral(t) ==
    /\ t # <<>>
    /\ \A k \in 1..Len(t) : IsDigit(t[k])
    /\ (Len(t) > 1 => t[1] # "0")

\* s is a DisplayLength F'-I" with F >= 0 and 0 <= I <= 11
IsDisplayLength(s) ==
    LET parts == Split(s, "'")
    IN  /\ Len(parts) = 2
        /\ IsNumeral(parts[1])
        /\ Len(parts[2]) >= 3
        /\ parts[2][1] = "-"
        /\ parts[2][Len(parts[2])] = "\""
        /\ IsNumeral(SubSeq(parts[2], 2, Len(parts[2]) - 1))
        /\ DigitPrefix(SubSeq(parts[2], 2, Len(parts[2]) - 1), 0) <= MaxInches

\* to_decimal_feet of the DisplayLength F'-I": F + I/12, in inches
DisplayLengthInches(s) ==
    LET parts == Split(s, "'")
    IN  12 * DigitPrefix(parts[1], 0)
          + DigitPrefix(SubSeq(parts[2], 2, Len(parts[2]) - 1), 0)

\* the sum of to_decimal_feet(wall.length) over all walls, in inches; NaN
\* when some length is not a DisplayLength
RECURSIVE SumOfWallLengths(_)
SumOfWallLengths(walls) ==
    IF walls = <<>> THEN Num(0)
    ELSE NumAdd(IF IsDisplayLength(Head(walls).length)
                THEN Num(DisplayLengthInches(Head(walls).length)) ELSE NaN,
                SumOfWallLengths(Tail(walls)))

\* icf_metrics as the analysis pipeline writes them for the walls
InitialMetrics(walls) ==
    LET total == SumOfWallLengths(walls)
    IN  [total_linear_feet    |-> ToFixed1(total, 12),
         total_corners        |-> NumWalls,
         wall_area_sqft       |-> ToFixed1(Num(total.v * WallHeightFeet), 12),
         wall_thickness_feet  |-> WallThicknessFeet100,
         concrete_volume_cuyd |->
             ToFixed1(Num(total.v * WallHeightFeet * WallThicknessFeet100),
                      12 * 100 * CubicFeetPerCubicYard),
         bounding_box         |-> [width_feet |-> 40, length_feet |-> 30],
         assumptions          |-> [wall_height_feet |-> WallHeightFeet]]

\* the length of the k-th wall as the analysis pipeline writes it: whole feet
InitialLength(k) == formatFeetInches(Num(k), Num(0))

\* the analyses the pipeline may have stored: wall ids counted from 0 or
\* from 1, with or without icf_metrics
InitialFiles ==
    {[corners         |-> [k \in 1..NumWalls |-> Corner(k)],
      walls           |-> [k \in 1..NumWalls |-> Wall(first + k - 1, k, InitialLength(k))],
      has_icf_metrics |-> has,
      icf_metrics     |->
          InitialMetrics([k \in 1..NumWalls |-> Wall(first + k - 1, k, InitialLength(k))]),
      metadata        |-> [wall_thickness |-> WallThicknessInches,
                           wall_height    |-> WallHeightFeet]] :
        first \in FirstWallIds, has \in BOOLEAN}

(***************************************************************************)
(* update-wall/route.ts: POST.                                             *)
(***************************************************************************)
\* totalLinearFeet of the loop over analysisData.walls, in inches
RECURSIVE RouteTotalLinearFeet(_)
RouteTotalLinearFeet(walls) ==
    IF walls = <<>> THEN Num(0)
    ELSE NumAdd(ToDecimalFeet(RouteParse(Head(walls).length)),
                RouteTotalLinearFeet(Tail(walls)))

\* the wall looked up by its position in the list instead of its id
FindIndexByPosition(ws, wallId) == IF wallId \in 1..Len(ws) THEN wallId ELSE 0

\* walls.findIndex(wall => wall.id === wallId); 0 stands for -1
FindIndex(ws, wallId) ==
    IF \E k \in 1..Len(ws) : ws[k].id = wallId
    THEN CHOOSE k \in 1..Len(ws) :
             ws[k].id = wallId /\ \A j \in 1..(k - 1) : ws[j].id # wallId
    ELSE 0

\* the recalculation adding the walls' total to the stored total instead of
\* replacing it
RecalculatedMetricsAccumulating(metrics, walls) ==
    LET total  == NumAdd(RouteTotalLinearFeet(walls),
                         IF metrics.total_linear_feet.nan THEN NaN
                         ELSE Num((12 * metrics.total_linear_feet.v) \div 10))
        height == metrics.assumptions.wall_height_feet
        thick  == metrics.wall_thickness_feet
    IN  [metrics EXCEPT
           !.total_linear_feet    = ToFixed1(total, 12),
           !.wall_area_sqft       =
               ToFixed1(IF total.nan THEN NaN ELSE Num(total.v * height), 12),
           !.concrete_volume_cuyd =
               ToFixed1(IF total.nan THEN NaN ELSE Num(total.v * height * thick),
                        12 * 100 * CubicFeetPerCubicYard)]

\* the icf_metrics after the recalculation over walls
RecalculatedMetrics(metrics, walls) ==
    LET total  == RouteTotalLinearFeet(walls)
        height == metrics.assumptions.wall_height_feet
        thick  == metrics.wall_thickness_feet
    IN  [metrics EXCEPT
           !.total_linear_feet    = ToFixed1(total, 12),
           !.wall_area_sqft       =
               ToFixed1(IF total.nan THEN NaN ELSE Num(total.v * height), 12),
           !.concrete_volume_cuyd =
               ToFixed1(IF total.nan THEN NaN ELSE Num(total.v * height * thick),
                        12 * 100 * CubicFeetPerCubicYard)]

\* a wall that carries no length (wall.length is undefined)
NoLength == <<"undefined">>

\* the recalculation that reads every length as a string
RecalculationNeverThrows(data, wallIndex) == FALSE

\* lengthStr.replace (line 53) throws a TypeError: the metrics exist and a
\* wall other than the one just overwritten has no length
RecalculationThrows(data, wallIndex) ==
    /\ data.has_icf_metrics
    /\ \E k \in 1..Len(data.walls) : k # wallIndex /\ data.walls[k].length = NoLength

\* analysisData after lines 43-81: the wall's length overwritten, the
\* metrics recalculated when they exist
UpdatedAnalysis(data, wallIndex, newLength) ==
    LET walls == [data.walls EXCEPT ![wallIndex].length = newLength]
    IN  [data EXCEPT
           !.walls       = walls,
           !.icf_metrics = IF data.has_icf_metrics
                           THEN RecalculatedMetrics(data.icf_metrics, walls)
                           ELSE data.icf_metrics]

(***************************************************************************)
(* State.                                                                  *)
(***************************************************************************)
VARIABLES
    file,          \* analysis_results.json as stored
    pc,            \* per client: where its update-wall request stands
    req,           \* per client: the body of its request
    snap,          \* per client: analysisData the handler read
    resp,          \* per client: the response of the handler
    posts,         \* number of requests received so far
    walls,         \* WallsTable: walls
    tableLoaded,   \* WallsTable: the fetch effect has run
    editingWall,   \* WallsTable: editingWall (NoWall for null)
    editFeet,      \* WallsTable: editFeet
    editInches,    \* WallsTable: editInches
    isSaving,      \* WallsTable: isSaving
    metrics,       \* ICFMetricsDisplay: metrics
    metricsFetch,  \* ICFMetricsDisplay: a fetch of the stored analysis is due
    editingWallThickness,  \* ICFMetricsDisplay: editingWallThickness
    editingWallHeight,     \* ICFMetricsDisplay: editingWallHeight
    wallThicknessInput,    \* ICFMetricsDisplay: wallThicknessInches
    wallHeightInput,       \* ICFMetricsDisplay: wallHeightFeet
    analysisData,  \* ICFMaterialsQuotation: analysisData
    settings,      \* ICFMaterialsQuotation: settings
    materials,     \* ICFMaterialsQuotation: materials
    earlyEvent,    \* history: a dimension event arrived before analysisData
    lastOp,        \* history: the operation that set the settings last
    localSettings, \* ICFCalculationSettings: localSettings (Null: not mounted)
    listenerSettings, \* ICFMaterialsQuotation: settings the registered listener closes over
    touched,       \* history: the field the user changed since the panel was
                   \* mounted; every field once it was more than one
    input,         \* parser harness: the feet and inches handed to the formatter
    lengthStr,     \* parser harness: the string the formatter returned
    parsed         \* parser harness: what each parser returned for lengthStr

serverVars == <<file, pc, req, snap, resp, posts>>

tableVars == <<walls, tableLoaded, editingWall, editFeet, editInches, isSaving>>

dimensionVars ==
    <<editingWallThickness, editingWallHeight, wallThicknessInput, wallHeightInput>>

displayVars == <<metrics, metricsFetch, editingWallThickness, editingWallHeight,
                 wallThicknessInput, wallHeightInput>>

quotationVars == <<analysisData, settings, materials, earlyEvent, lastOp, localSettings,
                   listenerSettings, touched>>

pageVars == <<walls, tableLoaded, editingWall, editFeet, editInches, isSaving,
              metrics, metricsFetch, editingWallThickness, editingWallHeight,
              wallThicknessInput, wallHeightInput,
              analysisData, settings, materials, earlyEvent, lastOp, localSettings,
              listenerSettings, touched>>

parserVars == <<input, lengthStr, parsed>>

vars == <<file, pc, req, snap, resp, posts,
          walls, tableLoaded, editingWall, editFeet, editInches, isSaving,
          metrics, metricsFetch, editingWallThickness, editingWallHeight,
          wallThicknessInput, wallHeightInput,
          analysisData, settings, materials, earlyEvent, lastOp, localSettings,
          listenerSettings, touched,
          input, lengthStr, parsed>>

Clients == {"table", "api"}

MaxPosts == 2

Null == [null |-> TRUE]

NoWall == 0 - 1

\* the request bodies a client sends: wall ids around the stored ones, and
\* lengths that are well formed, malformed ("abc") or empty
RequestWallIds == 0..NumWalls

RequestLengths ==
    {formatFeetInches(Num(1), Num(6)), formatFeetInches(Num(2), Num(0)),
     <<"a", "b", "c">>, <<>>}

(***************************************************************************)
(* update-wall/route.ts POST, lines 9-30: the body is read and checked,    *)
(* then the stored analysis is read.                                       *)
(***************************************************************************)
MissingParameters(wallId, newLength) == wallId = 0 \/ newLength = <<>>

\* analysis_results.json does not exist: readFile (line 29) throws
NoFile == [nofile |-> TRUE]

PostReceive(c, wallId, newLength) ==
    /\ req' = [req EXCEPT ![c] = [wallId |-> wallId, newLength |-> newLength]]
    /\ IF MissingParameters(wallId, newLength)
       THEN /\ resp' = [resp EXCEPT ![c] = [status |-> 400]]
            /\ pc' = [pc EXCEPT ![c] = "done"]
            /\ snap' = [snap EXCEPT ![c] = Null]
       ELSE IF file = NoFile
       THEN /\ resp' = [resp EXCEPT ![c] = [status |-> 500, details |-> "ENOENT"]]
            /\ pc' = [pc EXCEPT ![c] = "done"]
            /\ snap' = [snap EXCEPT ![c] = Null]
       ELSE /\ snap' = [snap EXCEPT ![c] = file]
            /\ pc' = [pc EXCEPT ![c] = "read"]
            /\ resp' = [resp EXCEPT ![c] = Null]
    /\ UNCHANGED file

\* a request of an HTTP client other than the walls table
Request(c, wallId, newLength) ==
    /\ pc[c] \in {"idle", "done"}
    /\ posts < MaxPosts
    /\ posts' = posts + 1
    /\ PostReceive(c, wallId, newLength)
    /\ UNCHANGED <<pageVars, parserVars>>

(***************************************************************************)
(* update-wall/route.ts POST, lines 32-91: the wall is looked up in the    *)
(* data read, its length overwritten, the metrics recalculated and the     *)
(* whole analysis written back.                                            *)
(***************************************************************************)
PostUpdate(c) ==
    /\ pc[c] = "read"
    /\ LET wallIndex == FindIndex(snap[c].walls, req[c].wallId)
           data      == UpdatedAnalysis(snap[c], wallIndex, req[c].newLength)
       IN  IF wallIndex = 0
           THEN /\ resp' = [resp EXCEPT ![c] = [status |-> 404]]
                /\ UNCHANGED file
           ELSE IF RecalculationThrows(snap[c], wallIndex)
           THEN /\ resp' = [resp EXCEPT ![c] = [status |-> 500, details |-> "replace"]]
                /\ UNCHANGED file
           ELSE /\ file' = data
                /\ resp' = [resp EXCEPT ![c] =
                       [status         |-> 200,
                        updatedWall    |-> data.walls[wallIndex],
                        has_metrics    |-> data.has_icf_metrics,
                        updatedMetrics |-> data.icf_metrics]]
    /\ pc' = [pc EXCEPT ![c] = "done"]
    /\ snap' = [snap EXCEPT ![c] = Null]
    /\ UNCHANGED <<req, posts, pageVars, parserVars>>

(***************************************************************************)
(* The update-wall route under requests of any clients.                    *)
(***************************************************************************)
DefaultSettings ==
    [panelWidth |-> 16, panelHeight |-> 48, formThickness |-> 5, concreteCore |-> 6,
     verticalRebarType |-> "#4", verticalRebarSpacing |-> 24,
     horizontalRebarType |-> "#4", horizontalRebarCourses |-> 3,
     concretePsi |-> 3500, concreteSlump_10 |-> 55, concreteWasteFactor |-> 10,
     formAlignmentSpacing |-> 6, bracingSpacing |-> 5,
     windowDoorBucks |-> TRUE, fasteningStrips |-> TRUE]

InitServer ==
    /\ file \in InitialFiles
    /\ pc = [c \in Clients |-> "idle"]
    /\ req = [c \in Clients |-> Null]
    /\ snap = [c \in Clients |-> Null]
    /\ resp = [c \in Clients |-> Null]
    /\ posts = 0

InitPage ==
    /\ walls = <<>>
    /\ tableLoaded = FALSE
    /\ editingWall = NoWall
    /\ editFeet = Num(0)
    /\ editInches = Num(0)
    /\ isSaving = FALSE
    /\ metrics = Null
    /\ metricsFetch = TRUE
    /\ editingWallThickness = FALSE
    /\ editingWallHeight = FALSE
    /\ wallThicknessInput = 6
    /\ wallHeightInput = 8
    /\ analysisData = Null
    /\ settings = DefaultSettings
    /\ materials = Null
    /\ earlyEvent = FALSE
    /\ lastOp = "none"
    /\ localSettings = Null
    /\ listenerSettings = DefaultSettings
    /\ touched = {}

InitParser ==
    /\ input = Null
    /\ lengthStr = <<>>
    /\ parsed = [table |-> Null, route |-> Null]

Init == InitServer /\ InitPage /\ InitParser

Next ==
    \/ \E c \in Clients, wallId \in RequestWallIds, newLength \in RequestLengths :
           Request(c, wallId, newLength)
    \/ \E c \in Clients : PostUpdate(c)

Spec == Init /\ [][Next]_vars

(***************************************************************************)
(* Properties of the update-wall route.                                    *)
(***************************************************************************)
\* the handler of client c answers 200 in this step (it has written file)
Succeeds(c) == pc[c] = "read" /\ pc'[c] = "done" /\ resp'[c].status = 200

AllDisplayLengths(ws) == \A k \in 1..Len(ws) : IsDisplayLength(ws[k].length)

\* the first piece of a length string, up to the feet symbol, is an integer
FeetTokenIsInteger(s) == IsNumeral(Trim(Split(NormalizeQuotes(s), "'")[1]))

\* C1: after every successful update-wall on an analysis with icf_metrics
\* whose walls all read F'-I", the stored total_linear_feet is the sum over
\* all walls of F + I/12, rounded to one decimal.
C1_TotalIsSumOfWallLengths ==
    [][\A c \in Clients :
          (Succeeds(c) /\ file'.has_icf_metrics /\ AllDisplayLengths(file'.walls))
              => file'.icf_metrics.total_linear_feet
                     = ToFixed1(SumOfWallLengths(file'.walls), 12)]_vars

\* C2: edits of one analysis are serialized, so no update is lost: a
\* successful edit leaves the stored length of every other wall as it was
\* stored just before, and the stored metrics are those of the stored walls.
C2_NoLostUpdate ==
    [][\A c \in Clients :
          Succeeds(c) =>
              /\ \A k \in 1..Len(file.walls) :
                     file.walls[k].id # req[c].wallId
                         => file'.walls[k].length = file.walls[k].length
              /\ file'.has_icf_metrics
                     => file'.icf_metrics
                            = RecalculatedMetrics(file.icf_metrics, file'.walls)]_vars

C5_OnlyLengthOverwritten ==
    [][\A c \in Clients :
          Succeeds(c) =>
              /\ file'.corners = file.corners
              /\ file'.metadata = file.metadata
              /\ file'.has_icf_metrics = file.has_icf_metrics
              /\ file'.icf_metrics.total_corners = file.icf_metrics.total_corners
              /\ file'.icf_metrics.bounding_box = file.icf_metrics.bounding_box
              /\ file'.icf_metrics.assumptions = file.icf_metrics.assumptions
              /\ file'.icf_metrics.wall_thickness_feet
                     = file.icf_metrics.wall_thickness_feet
              /\ Len(file'.walls) = Len(file.walls)
              /\ \A k \in 1..Len(file.walls) :
                     IF file.walls[k].id = req[c].wallId
                     THEN [file'.walls[k] EXCEPT !.length = <<>>]
                              = [file.walls[k] EXCEPT !.length = <<>>]
                     ELSE file'.walls[k] = file.walls[k]]_vars

\* C6: a successful edit of wall w from P to L changes total_linear_feet by
\* exactly to_decimal_feet(L) - to_decimal_feet(P) and leaves the other
\* wall lengths unchanged.
C6_EditConsistency ==
    [][\A c \in Clients :
          (Succeeds(c) /\ file.has_icf_metrics
               /\ AllDisplayLengths(file.walls) /\ AllDisplayLengths(file'.walls))
              => \A k \in 1..Len(file.walls) :
                     IF file.walls[k].id = req[c].wallId
                     THEN /\ ~file.icf_metrics.total_linear_feet.nan
                          /\ ~file'.icf_metrics.total_linear_feet.nan
                          /\ 12 * (file'.icf_metrics.total_linear_feet.v
                                     - file.icf_metrics.total_linear_feet.v)
                               = 10 * (DisplayLengthInches(file'.walls[k].length)
                                         - DisplayLengthInches(file.walls[k].length))
                     ELSE file'.walls[k].length = file.walls[k].length]_vars

C10_MalformedLengthRejected ==
    [][\A c \in Clients :
          (pc[c] = "read" /\ pc'[c] = "done" /\ ~FeetTokenIsInteger(req[c].newLength))
              => (resp'[c].status >= 400 /\ file' = file)]_vars

(***************************************************************************)
(* The formatter and the two parsers on their own: a length is formatted   *)
(* by the walls table and read back by the walls table and by the route.   *)
(***************************************************************************)
Format ==
    /\ input # Null
    /\ lengthStr = <<>>
    /\ lengthStr' = formatFeetInches(Num(input.feet), Num(input.inches))
    /\ UNCHANGED <<input, parsed, serverVars, pageVars>>

ParseInTable ==
    /\ lengthStr # <<>>
    /\ parsed.table = Null
    /\ parsed' = [parsed EXCEPT !.table = parseFeetInches(lengthStr)]
    /\ UNCHANGED <<input, lengthStr, serverVars, pageVars>>

ParseInRoute ==
    /\ lengthStr # <<>>
    /\ parsed.route = Null
    /\ parsed' = [parsed EXCEPT !.route = RouteParse(lengthStr)]
    /\ UNCHANGED <<input, lengthStr, serverVars, pageVars>>

InitParse ==
    /\ input \in [feet : 0..MaxParseFeet, inches : 0..MaxInches]
    /\ lengthStr = <<>>
    /\ parsed = [table |-> Null, route |-> Null]
    /\ InitPage
    /\ file = CHOOSE f \in InitialFiles : TRUE
    /\ pc = [c \in Clients |-> "idle"]
    /\ req = [c \in Clients |-> Null]
    /\ snap = [c \in Clients |-> Null]
    /\ resp = [c \in Clients |-> Null]
    /\ posts = 0

NextParse == Format \/ ParseInTable \/ ParseInRoute

SpecParse == InitParse /\ [][NextParse]_vars

\* C8: for all integers f >= 0 and 0 <= i <= 11,
\* parseFeetInches(formatFeetInches(f, i)) is exactly {feet: f, inches: i}.
C8_RoundTrip ==
    parsed.table # Null
        => parsed.table = [feet |-> Num(input.feet), inches |-> Num(input.inches)]

\* a length of two-digit feet and non-zero inches has gone the round trip
C8_Witness ==
    /\ parsed.table # Null
    /\ input.feet >= 10
    /\ input.inches > 0
    /\ lengthStr = formatFeetInches(Num(input.feet), Num(input.inches))

\* C9: for every string F'-I" that formatFeetInches produces, the walls
\* table parser and the update-wall route parser both return feet F and
\* inches I, the hyphen before the inches being ignored by both.
C9_ParsersAgree ==
    (parsed.table # Null /\ parsed.route # Null)
        => /\ parsed.route = parsed.table
           /\ parsed.route.inches = Num(input.inches)

(***************************************************************************)
(* icf-materials-quotation.tsx: the quotation of the analysis page.        *)
(***************************************************************************)
\* the courses without rounding the quotient up
HorizontalRebarCoursesFloor(wallHeightFeet) ==
    IF wallHeightFeet \div 3 > 3 THEN wallHeightFeet \div 3 ELSE 3

\* Math.max(3, Math.ceil(wallHeightFeet / 3))
HorizontalRebarCourses(wallHeightFeet) ==
    IF CeilDiv(wallHeightFeet, 3) > 3 THEN CeilDiv(wallHeightFeet, 3) ELSE 3

\* the settings after the effect that initializes them from the analysis
\* (lines 145-193)
InitialAdjustment(s, data) ==
    LET wallHeightFeet      == IF data.has_icf_metrics
                               THEN data.icf_metrics.assumptions.wall_height_feet
                               ELSE data.metadata.wall_height
        wallThicknessInches == IF data.metadata.wall_thickness = Absent
                               THEN 8 ELSE data.metadata.wall_thickness
        type    == IF wallHeightFeet > 9 \/ wallThicknessInches >= 8
                   THEN "#5" ELSE s.verticalRebarType
        spacing == IF wallHeightFeet > 9 THEN 16
                   ELSE IF wallThicknessInches >= 8 THEN 24
                   ELSE s.verticalRebarSpacing
    IN  [s EXCEPT
           !.concreteCore           = wallThicknessInches,
           !.verticalRebarType      = type,
           !.verticalRebarSpacing   = spacing,
           !.horizontalRebarCourses = HorizontalRebarCourses(wallHeightFeet),
           !.bracingSpacing         = IF wallHeightFeet > 9 THEN 4 ELSE s.bracingSpacing]

\* Math.ceil(x) for x = n.v * mul / den, NaN when n is NaN
NumCeil(n, mul, den) == IF n.nan THEN NaN ELSE Num(CeilDiv(n.v * mul, den))

\* Infinity and -Infinity, the quotients of a non-zero number by 0
Infinity == [nan |-> FALSE, v |-> 0, sign |-> 1]

NegInfinity == [nan |-> FALSE, v |-> 0, sign |-> 0 - 1]

IsInfinite(n) == n \in {Infinity, NegInfinity}

\* num / den of two integers, rounded up by Math.ceil
CeilQuotient(num, den) ==
    IF den # 0 THEN Num(CeilDiv(num, den))
    ELSE IF num = 0 THEN NaN
    ELSE IF num > 0 THEN Infinity ELSE NegInfinity

\* n * mul for an integer mul >= 0: NaN when n is NaN, and when n is
\* infinite and mul is 0
NumTimes(n, mul) ==
    IF n.nan THEN NaN
    ELSE IF IsInfinite(n) THEN (IF mul = 0 THEN NaN ELSE n)
    ELSE Num(n.v * mul)

\* the materials the effect of lines 244-355 computes.  The metrics come in
\* tenths; each field names its unit where it is not a plain count.
CalculateMaterials(data, s) ==
    LET has             == data.has_icf_metrics
        totalLinearFeet == IF has THEN data.icf_metrics.total_linear_feet ELSE Num(0)
        totalCorners    == IF has THEN data.icf_metrics.total_corners ELSE 0
        wallAreaSqft    == IF has THEN data.icf_metrics.wall_area_sqft ELSE Num(0)
        wallHeightFeet  == IF has THEN data.icf_metrics.assumptions.wall_height_feet
                           ELSE data.metadata.wall_height
        standardPanelsCount ==
            IF totalLinearFeet.nan THEN NaN
            ELSE CeilQuotient(12 * (totalLinearFeet.v - 20 * totalCorners),
                              10 * s.panelWidth)
        verticalRebarCount == NumCeil(totalLinearFeet, 12, 10 * s.verticalRebarSpacing)
    IN  [standardPanels |->
             [count        |-> standardPanelsCount,
              areaSqft_144 |-> NumTimes(standardPanelsCount, s.panelWidth * s.panelHeight)],
         cornerPanels |-> [count |-> totalCorners],
         verticalRebar |->
             [type       |-> s.verticalRebarType,
              count      |-> verticalRebarCount,
              lengthFeet |-> NumTimes(verticalRebarCount, wallHeightFeet)],
         horizontalRebar |->
             [type          |-> s.horizontalRebarType,
              count         |-> s.horizontalRebarCourses,
              lengthFeet_10 |-> NumTimes(totalLinearFeet, s.horizontalRebarCourses)],
         concrete |->
             [strengthPsi            |-> s.concretePsi,
              slumpInches_10         |-> s.concreteSlump_10,
              volumeCuYd_60000       |-> NumTimes(wallAreaSqft, 16 * s.concreteCore),
              volumeWithWaste_6000000 |->
                  NumTimes(wallAreaSqft,
                           16 * s.concreteCore * (100 + s.concreteWasteFactor))],
         formAlignmentSystems |->
             [count |-> NumCeil(totalLinearFeet, 1, 10 * s.formAlignmentSpacing)],
         bracing |->
             [count |-> NumCeil(totalLinearFeet, wallHeightFeet, 200 * s.bracingSpacing)],
         windowDoorBucks |->
             [linearFeet_100 |-> IF s.windowDoorBucks THEN totalLinearFeet ELSE Num(0)],
         fasteningStrips |->
             [count |-> IF s.fasteningStrips THEN NumCeil(wallAreaSqft, 1, 40) ELSE Num(0)],
         labor |->
             [crewDays_6500   |-> wallAreaSqft,
              pourTimeHours_4 |-> wallHeightFeet]]

\* the fetch effect (lines 118-142) and the two effects it sets off: the
\* settings are initialized from the analysis, the materials calculated
QuotationFetch ==
    /\ analysisData = Null
    /\ analysisData' = file
    /\ settings' = InitialAdjustment(settings, file)
    /\ materials' = CalculateMaterials(file, InitialAdjustment(settings, file))
    /\ listenerSettings' = settings'
    /\ lastOp' = "init"
    /\ UNCHANGED <<earlyEvent, localSettings, touched>>
    /\ UNCHANGED <<serverVars, tableVars, displayVars, parserVars>>

(***************************************************************************)
(* analyses-table.tsx: ICFMetricsDisplay.                                  *)
(***************************************************************************)
\* metrics.wall_thickness and metrics.wall_height, Absent while metrics is {}
ShownThickness(m) == IF m = Null THEN Absent ELSE m.wall_thickness

ShownHeight(m) == IF m = Null THEN Absent ELSE m.wall_height

\* the effect on [metrics.wall_thickness, metrics.wall_height] (lines
\* 200-216) after metrics went from prev to next: when one of the two
\* changed, each input is set from the value that is present
DimensionEffect(prev, next) ==
    LET runs == \/ ShownThickness(next) # ShownThickness(prev)
                \/ ShownHeight(next) # ShownHeight(prev)
    IN  /\ wallThicknessInput' =
               IF runs /\ ShownThickness(next) # Absent
               THEN ShownThickness(next) ELSE wallThicknessInput
        /\ wallHeightInput' =
               IF runs /\ ShownHeight(next) # Absent
               THEN ShownHeight(next) ELSE wallHeightInput

\* the fetch effect (lines 219-248), run on mount and after a refresh
DisplayFetch ==
    /\ metricsFetch
    /\ metricsFetch' = FALSE
    /\ metrics' = [icf_metrics    |-> IF file.has_icf_metrics THEN file.icf_metrics ELSE Null,
                   wall_thickness |-> file.metadata.wall_thickness,
                   wall_height    |-> file.metadata.wall_height]
    /\ DimensionEffect(metrics, metrics')
    /\ UNCHANGED <<editingWallThickness, editingWallHeight>>
    /\ UNCHANGED <<serverVars, tableVars, quotationVars, parserVars>>

\* metrics after handleWallUpdate (lines 179-190) has merged updatedMetrics
MergedMetrics(prev, updatedMetrics) ==
    IF prev = Null
    THEN [icf_metrics |-> updatedMetrics, wall_thickness |-> Absent, wall_height |-> Absent]
    ELSE [prev EXCEPT !.icf_metrics = updatedMetrics]

(***************************************************************************)
(* walls-table.tsx: WallsTable.                                            *)
(***************************************************************************)
\* the fetch effect (lines 66-95)
TableFetch ==
    /\ ~tableLoaded
    /\ tableLoaded' = TRUE
    /\ walls' = file.walls
    /\ UNCHANGED <<serverVars, editingWall, editFeet, editInches, isSaving,
                   displayVars, quotationVars, parserVars>>

\* the Edit button or the length of row k is clicked
handleEditClick(k) ==
    /\ k \in 1..Len(walls)
    /\ editingWall # walls[k].id
    /\ editFeet' = parseFeetInches(walls[k].length).feet
    /\ editInches' = parseFeetInches(walls[k].length).inches
    /\ editingWall' = walls[k].id
    /\ UNCHANGED <<serverVars, walls, tableLoaded, isSaving,
                   displayVars, quotationVars, parserVars>>

\* onChange of the feet input: setEditFeet(parseInt(value, 10) || 0)
setEditFeet(v) ==
    /\ editingWall # NoWall
    /\ editFeet' = Num(v)
    /\ UNCHANGED <<serverVars, walls, tableLoaded, editingWall, editInches, isSaving,
                   displayVars, quotationVars, parserVars>>

\* onChange of the inches input: setEditInches(parseInt(value, 10) || 0)
setEditInches(v) ==
    /\ editingWall # NoWall
    /\ editInches' = Num(v)
    /\ UNCHANGED <<serverVars, walls, tableLoaded, editingWall, editFeet, isSaving,
                   displayVars, quotationVars, parserVars>>

handleCancelEdit ==
    /\ editingWall # NoWall
    /\ ~isSaving
    /\ editingWall' = NoWall
    /\ UNCHANGED <<serverVars, walls, tableLoaded, editFeet, editInches, isSaving,
                   displayVars, quotationVars, parserVars>>

\* handleSaveEdit up to the fetch (lines 111-142): the row's Save button is
\* clicked, the wall is overwritten in the table and the request sent
handleSaveEdit(wallId) ==
    /\ editingWall = wallId
    /\ wallId # NoWall
    /\ ~isSaving
    /\ pc["table"] = "idle"
    /\ posts < MaxPosts
    /\ posts' = posts + 1
    /\ isSaving' = TRUE
    /\ LET wallIndex == FindIndex(walls, wallId)
           newLength == formatFeetInches(editFeet, editInches)
       IN  /\ wallIndex # 0
           /\ walls' = [walls EXCEPT ![wallIndex].length = newLength]
           /\ req' = [req EXCEPT !["table"] = [wallId |-> wallId, newLength |-> newLength]]
    /\ pc' = [pc EXCEPT !["table"] = "sent"]
    /\ UNCHANGED <<file, snap, resp, tableLoaded, editingWall, editFeet, editInches,
                   displayVars, quotationVars, parserVars>>

\* the request of the walls table reaches the route
PostFromTable ==
    /\ pc["table"] = "sent"
    /\ PostReceive("table", req["table"].wallId, req["table"].newLength)
    /\ UNCHANGED <<posts, pageVars, parserVars>>

\* the continuation of handleSaveEdit with a catch block that leaves isSaving
\* as it is
saveResponseKeepsSaving ==
    /\ pc["table"] = "done"
    /\ isSaving
    /\ IF resp["table"].status = 200
       THEN /\ editingWall' = NoWall
            /\ isSaving' = FALSE
            /\ IF resp["table"].has_metrics
               THEN /\ metrics' = MergedMetrics(metrics, resp["table"].updatedMetrics)
                    /\ UNCHANGED metricsFetch
               ELSE /\ metricsFetch' = TRUE
                    /\ UNCHANGED metrics
       ELSE UNCHANGED <<editingWall, metrics, metricsFetch, isSaving>>
    /\ UNCHANGED dimensionVars
    /\ pc' = [pc EXCEPT !["table"] = "idle"]
    /\ req' = [req EXCEPT !["table"] = Null]
    /\ resp' = [resp EXCEPT !["table"] = Null]
    /\ UNCHANGED <<file, snap, posts, walls, tableLoaded, editFeet, editInches,
                   quotationVars, parserVars>>

\* handleSaveEdit from the response on (lines 144-168); a response that is
\* ok is announced by 'wall-updated', which ICFMetricsDisplay handles
saveResponse ==
    /\ pc["table"] = "done"
    /\ isSaving
    /\ IF resp["table"].status = 200
       THEN /\ editingWall' = NoWall
            /\ IF resp["table"].has_metrics
               THEN /\ metrics' = MergedMetrics(metrics, resp["table"].updatedMetrics)
                    /\ UNCHANGED metricsFetch
               ELSE /\ metricsFetch' = TRUE
                    /\ UNCHANGED metrics
       ELSE UNCHANGED <<editingWall, metrics, metricsFetch>>
    /\ UNCHANGED dimensionVars
    /\ isSaving' = FALSE
    /\ pc' = [pc EXCEPT !["table"] = "idle"]
    /\ req' = [req EXCEPT !["table"] = Null]
    /\ resp' = [resp EXCEPT !["table"] = Null]
    /\ UNCHANGED <<file, snap, posts, walls, tableLoaded, editFeet, editInches,
                   quotationVars, parserVars>>

(***************************************************************************)
(* The analysis page (walls table, metrics display, quotation) and the     *)
(* route serving the requests of its walls table.                          *)
(***************************************************************************)
NextPage ==
    \/ TableFetch
    \/ DisplayFetch
    \/ QuotationFetch
    \/ \E k \in 1..NumWalls : handleEditClick(k)
    \/ \E v \in EditFeetValues : setEditFeet(v)
    \/ \E v \in EditInchesValues : setEditInches(v)
    \/ handleCancelEdit
    \/ \E wallId \in RequestWallIds \cup {NumWalls} : handleSaveEdit(wallId)
    \/ PostFromTable
    \/ PostUpdate("table")
    \/ saveResponse

SpecPage == Init /\ [][NextPage]_vars

\* C3: when a successful wall-length edit completes, the materials held by
\* the quotation are those calculated from the updated icf_metrics, not
\* those of the total_linear_feet and wall_area_sqft before the edit.
C3_QuotationFollowsEdit ==
    [][(/\ pc["table"] = "done"
        /\ pc'["table"] = "idle"
        /\ resp["table"].status = 200
        /\ resp["table"].has_metrics
        /\ analysisData # Null)
           => materials'
                  = CalculateMaterials(
                        [analysisData EXCEPT !.icf_metrics = resp["table"].updatedMetrics],
                        settings')]_vars

(***************************************************************************)
(* Wall height and wall thickness: the analyses the page may be opened on. *)
(***************************************************************************)
\* the values of the thickness select and of the height input
ThicknessChoices == {6, 8, 10}

HeightChoices == {8, 9, 10}

\* icf_metrics as the analysis pipeline writes them for walls, a number of
\* corners and a wall height
MetricsOf(ws, corners, height) ==
    LET total == SumOfWallLengths(ws)
    IN  [total_linear_feet    |-> ToFixed1(total, 12),
         total_corners        |-> corners,
         wall_area_sqft       |-> ToFixed1(Num(total.v * height), 12),
         wall_thickness_feet  |-> WallThicknessFeet100,
         concrete_volume_cuyd |->
             ToFixed1(Num(total.v * height * WallThicknessFeet100),
                      12 * 100 * CubicFeetPerCubicYard),
         bounding_box         |-> [width_feet |-> 40, length_feet |-> 30],
         assumptions          |-> [wall_height_feet |-> height]]

BaseFile == CHOOSE f \in InitialFiles : f.walls[1].id = 1 /\ f.has_icf_metrics

\* an analysis of walls 10 ft high
TallFile ==
    [BaseFile EXCEPT !.icf_metrics = MetricsOf(BaseFile.walls, NumWalls, 10),
                     !.metadata.wall_height = 10]

\* an analysis with zero corners and zero walls
EmptyFile ==
    [BaseFile EXCEPT !.corners = <<>>, !.walls = <<>>,
                     !.icf_metrics = MetricsOf(<<>>, 0, WallHeightFeet)]

\* the analyses: with and without icf_metrics, without a wall thickness,
\* with tall walls, with no walls
DimensionFiles ==
    {BaseFile,
     [BaseFile EXCEPT !.has_icf_metrics = FALSE],
     [BaseFile EXCEPT !.metadata.wall_thickness = Absent],
     TallFile,
     EmptyFile}

(***************************************************************************)
(* icf-materials-quotation.tsx: the listener of 'icf-dimension-updated'.   *)
(***************************************************************************)
\* newSettings when every event resets the vertical spacing and the courses
DimensionUpdateResetting(s, type, value) ==
    [s EXCEPT !.concreteCore           = IF type = "wall_thickness" THEN value ELSE @,
              !.verticalRebarType      = IF value >= 8 THEN "#5" ELSE "#4",
              !.verticalRebarSpacing   = IF value > 9 THEN 16 ELSE 24,
              !.bracingSpacing         = IF value > 9 THEN 4 ELSE 5,
              !.horizontalRebarCourses = HorizontalRebarCourses(value)]

\* newSettings of handleDimensionUpdate (lines 197-234) for settings s
DimensionUpdate(s, type, value) ==
    IF type = "wall_thickness"
    THEN [s EXCEPT !.concreteCore      = value,
                   !.verticalRebarType = IF value >= 8 THEN "#5" ELSE "#4"]
    ELSE IF type = "wall_height"
    THEN [s EXCEPT
            !.verticalRebarType      = IF value > 9 THEN "#5"
                                       ELSE IF s.concreteCore < 8 THEN "#4" ELSE @,
            !.verticalRebarSpacing   = IF value > 9 THEN 16
                                       ELSE IF s.concreteCore < 8 THEN 24 ELSE @,
            !.bracingSpacing         = IF value > 9 THEN 4 ELSE 5,
            !.horizontalRebarCourses = HorizontalRebarCourses(value)]
    ELSE s

\* the materials effect (lines 244-355) after the settings became s
MaterialsEffect(s) ==
    IF analysisData = Null THEN materials ELSE CalculateMaterials(analysisData, s)

\* window.dispatchEvent of 'icf-dimension-updated': the registered listener
\* sets the settings from the settings it closes over
dispatchDimensionUpdate(type, value) ==
    /\ settings' = DimensionUpdate(listenerSettings, type, value)
    /\ earlyEvent' = (earlyEvent \/ analysisData = Null)
    /\ lastOp' = type
    /\ UNCHANGED <<analysisData, localSettings, touched>>

\* the event handled and the quotation rendered again: the materials effect
\* runs and the listener is registered anew with the new settings (the
\* effect of lines 196-241 depends on [settings])
handleDimensionUpdate(type, value) ==
    /\ dispatchDimensionUpdate(type, value)
    /\ materials' = MaterialsEffect(settings')
    /\ listenerSettings' = settings'

(***************************************************************************)
(* analyses-table.tsx: the wall thickness and wall height of               *)
(* ICFMetricsDisplay.                                                      *)
(***************************************************************************)
\* the display is past its loading and shows the metrics
Rendered == metrics # Null /\ ~metricsFetch

\* the pencil next to the wall thickness (line 366)
editWallThickness ==
    /\ Rendered
    /\ ~editingWallThickness
    /\ editingWallThickness' = TRUE
    /\ UNCHANGED <<metrics, metricsFetch, editingWallHeight, wallThicknessInput,
                   wallHeightInput>>
    /\ UNCHANGED <<serverVars, tableVars, quotationVars, parserVars>>

\* onValueChange of the thickness select (line 330)
setWallThicknessInches(v) ==
    /\ Rendered
    /\ editingWallThickness
    /\ wallThicknessInput' = v
    /\ UNCHANGED <<metrics, metricsFetch, editingWallThickness, editingWallHeight,
                   wallHeightInput>>
    /\ UNCHANGED <<serverVars, tableVars, quotationVars, parserVars>>

\* the X next to the thickness select (line 354)
cancelWallThickness ==
    /\ Rendered
    /\ editingWallThickness
    /\ editingWallThickness' = FALSE
    /\ UNCHANGED <<metrics, metricsFetch, editingWallHeight, wallThicknessInput,
                   wallHeightInput>>
    /\ UNCHANGED <<serverVars, tableVars, quotationVars, parserVars>>

handleSaveWallThickness ==
    /\ Rendered
    /\ editingWallThickness
    /\ metrics' = [metrics EXCEPT !.wall_thickness = wallThicknessInput]
    /\ DimensionEffect(metrics, metrics')
    /\ handleDimensionUpdate("wall_thickness", wallThicknessInput)
    /\ editingWallThickness' = FALSE
    /\ UNCHANGED <<metricsFetch, editingWallHeight>>
    /\ UNCHANGED <<serverVars, tableVars, parserVars>>

\* the pencil next to the wall height (line 411)
editWallHeight ==
    /\ Rendered
    /\ ~editingWallHeight
    /\ editingWallHeight' = TRUE
    /\ UNCHANGED <<metrics, metricsFetch, editingWallThickness, wallThicknessInput,
                   wallHeightInput>>
    /\ UNCHANGED <<serverVars, tableVars, quotationVars, parserVars>>

\* onChange of the height input (line 380)
setWallHeightFeet(v) ==
    /\ Rendered
    /\ editingWallHeight
    /\ wallHeightInput' = v
    /\ UNCHANGED <<metrics, metricsFetch, editingWallThickness, editingWallHeight,
                   wallThicknessInput>>
    /\ UNCHANGED <<serverVars, tableVars, quotationVars, parserVars>>

\* the X next to the height input (line 399)
cancelWallHeight ==
    /\ Rendered
    /\ editingWallHeight
    /\ editingWallHeight' = FALSE
    /\ UNCHANGED <<metrics, metricsFetch, editingWallThickness, wallThicknessInput,
                   wallHeightInput>>
    /\ UNCHANGED <<serverVars, tableVars, quotationVars, parserVars>>

handleSaveWallHeight ==
    /\ Rendered
    /\ editingWallHeight
    /\ metrics' = [metrics EXCEPT !.wall_height = wallHeightInput]
    /\ DimensionEffect(metrics, metrics')
    /\ handleDimensionUpdate("wall_height", wallHeightInput)
    /\ editingWallHeight' = FALSE
    /\ UNCHANGED <<metricsFetch, editingWallThickness>>
    /\ UNCHANGED <<serverVars, tableVars, parserVars>>

(***************************************************************************)
(* The metrics display and the quotation of one analysis page, under       *)
(* changes of the wall thickness and the wall height.                      *)
(***************************************************************************)
InitDimensions ==
    /\ file \in DimensionFiles
    /\ pc = [c \in Clients |-> "idle"]
    /\ req = [c \in Clients |-> Null]
    /\ snap = [c \in Clients |-> Null]
    /\ resp = [c \in Clients |-> Null]
    /\ posts = 0
    /\ InitPage
    /\ InitParser

NextDimensions ==
    \/ DisplayFetch
    \/ QuotationFetch
    \/ editWallThickness
    \/ \E v \in ThicknessChoices : setWallThicknessInches(v)
    \/ cancelWallThickness
    \/ handleSaveWallThickness
    \/ editWallHeight
    \/ \E v \in HeightChoices : setWallHeightFeet(v)
    \/ cancelWallHeight
    \/ handleSaveWallHeight

SpecDimensions == InitDimensions /\ [][NextDimensions]_vars

(***************************************************************************)
(* The two parsers on length strings whose inches token is absent or not   *)
(* a number.                                                               *)
(***************************************************************************)
MaxRawFeet == 4

\* what follows the feet digits: nothing, the feet symbol alone, an empty
\* inches token (with and without the hyphen), an inches token of a letter
InchTokens ==
    {<<>>,
     <<"'">>,
     <<"'", "\"">>,
     <<"'", "-", "\"">>,
     <<"'", "x", "\"">>,
     <<"'", "-", "x", "\"">>}

InitParseRaw ==
    /\ input \in [feet : 0..MaxRawFeet, token : InchTokens]
    /\ lengthStr = NatToString(input.feet) \o input.token
    /\ parsed = [table |-> Null, route |-> Null]
    /\ InitPage
    /\ file = CHOOSE f \in InitialFiles : TRUE
    /\ pc = [c \in Clients |-> "idle"]
    /\ req = [c \in Clients |-> Null]
    /\ snap = [c \in Clients |-> Null]
    /\ resp = [c \in Clients |-> Null]
    /\ posts = 0

NextParseRaw == ParseInTable \/ ParseInRoute

SpecParseRaw == InitParseRaw /\ [][NextParseRaw]_vars

\* C11: when the inches token of a length string is absent or not a number,
\* the walls table parser and the route parser both return inches 0 (never
\* NaN), and the wall counts for exactly its feet in the route's total.
C11_MissingInchesAreZero ==
    /\ parsed.table # Null => parsed.table.inches = Num(0)
    /\ parsed.route # Null =>
           /\ parsed.route.inches = Num(0)
           /\ ToDecimalFeet(parsed.route) = Num(12 * input.feet)

(***************************************************************************)
(* Properties of the auto-adjustment of the settings.                      *)
(***************************************************************************)
\* the settings come from the initial adjustment followed by dimension
\* events only, and the display shows the dimensions
Adjusted == analysisData # Null /\ ~earlyEvent /\ metrics # Null /\ localSettings = Null

\* C12: after the initial adjustment and any sequence of wall height and
\* wall thickness events, a current wall height above 9 ft means vertical
\* rebar "#5" at 16 in and bracing every 4 ft, whatever the thickness and the
\* order of the events.
C12_TallWallSettings ==
    (Adjusted /\ ShownHeight(metrics) > 9)
        => /\ settings.verticalRebarType = "#5"
           /\ settings.verticalRebarSpacing = 16
           /\ settings.bracingSpacing = 4

\* C13: after the initial adjustment and any sequence of dimension events, a
\* current wall height of at most 9 ft with a concrete core of 8 in or more
\* means vertical rebar "#5" at 24 in.
C13_ThickWallSettings ==
    (Adjusted /\ ShownHeight(metrics) <= 9 /\ settings.concreteCore >= 8)
        => /\ settings.verticalRebarType = "#5"
           /\ settings.verticalRebarSpacing = 24

\* C14: after the initial adjustment and any sequence of dimension events, a
\* current wall height of at most 9 ft with a concrete core below 8 in means
\* vertical rebar "#4" at 24 in and bracing every 5 ft.
C14_StandardWallSettings ==
    (Adjusted /\ ShownHeight(metrics) <= 9 /\ settings.concreteCore < 8)
        => /\ settings.verticalRebarType = "#4"
           /\ settings.verticalRebarSpacing = 24
           /\ settings.bracingSpacing = 5

\* C15: after the initial adjustment and after every wall height or wall
\* thickness event, settings.concreteCore equals the wall thickness in
\* inches that the metrics display shows, also for an analysis that carries
\* no thickness.
C15_CoreFollowsThickness ==
    (analysisData # Null /\ ~earlyEvent /\ metrics # Null)
        => settings.concreteCore = ShownThickness(metrics)

(***************************************************************************)
(* Properties of the quotation under wall height events.                   *)
(***************************************************************************)
\* the wall height the quotation reads from its analysis data
QuotedHeight(data) ==
    IF data.has_icf_metrics THEN data.icf_metrics.assumptions.wall_height_feet
    ELSE data.metadata.wall_height

\* the total_linear_feet the quotation reads from its analysis data, in tenths
QuotedTotal(data) ==
    IF data.has_icf_metrics THEN data.icf_metrics.total_linear_feet ELSE Num(0)

\* the least n >= 3 with 3 * n >= h, that is max(3, ceil(h / 3))
CoursesFor(h) == CHOOSE n \in 3..(h + 3) : 3 * n >= h /\ (n = 3 \/ 3 * (n - 1) < h)

\* horizontalRebar of the materials is the courses setting times the total
HorizontalRebarFollows(m, s, data) ==
    /\ m.horizontalRebar.count = s.horizontalRebarCourses
    /\ m.horizontalRebar.lengthFeet_10.nan = QuotedTotal(data).nan
    /\ m.horizontalRebar.lengthFeet_10.v = s.horizontalRebarCourses * QuotedTotal(data).v

\* C16: after the initial adjustment and after every wall height event with
\* value h, settings.horizontalRebarCourses is max(3, ceil(h / 3)); the
\* materials then have horizontalRebar.count equal to that setting and
\* horizontalRebar.lengthFeet equal to count * total_linear_feet.
C16_HorizontalCourses ==
    [][/\ QuotationFetch =>
              /\ settings'.horizontalRebarCourses = CoursesFor(QuotedHeight(analysisData'))
              /\ HorizontalRebarFollows(materials', settings', analysisData')
       /\ handleSaveWallHeight =>
              /\ settings'.horizontalRebarCourses = CoursesFor(wallHeightInput)
              /\ analysisData # Null
                     => HorizontalRebarFollows(materials', settings', analysisData')]_vars

\* a wall height of 10 ft was saved on an analysis of 8 ft walls: the
\* quotation holds 4 courses and 4 times the total linear feet
C16_Witness ==
    /\ Adjusted
    /\ QuotedHeight(analysisData) = 8
    /\ ShownHeight(metrics) = 10
    /\ settings.horizontalRebarCourses = 4
    /\ materials.horizontalRebar.count = 4
    /\ QuotedTotal(analysisData).v > 0
    /\ materials.horizontalRebar.lengthFeet_10.v = 4 * QuotedTotal(analysisData).v

(***************************************************************************)
(* icf-calculation-settings.tsx: ICFCalculationSettings, mounted while the *)
(* "Calculation Settings" tab of the quotation is selected.                *)
(***************************************************************************)
\* the fields and values entered by hand: the core select, the sliders at
\* their upper end, the panel width input
InputChoices ==
    {<<"concreteCore", 12>>,
     <<"verticalRebarSpacing", 36>>,
     <<"horizontalRebarCourses", 6>>,
     <<"bracingSpacing", 6>>,
     <<"panelWidth", 0>>}

\* the tab is selected: localSettings = useState(settings) (line 22)
openSettings ==
    /\ analysisData # Null
    /\ localSettings = Null
    /\ localSettings' = settings
    /\ touched' = {}
    /\ UNCHANGED <<analysisData, settings, materials, earlyEvent, lastOp, listenerSettings>>
    /\ UNCHANGED <<serverVars, tableVars, displayVars, parserVars>>

\* the summary tab is selected again
closeSettings ==
    /\ localSettings # Null
    /\ localSettings' = Null
    /\ touched' = {}
    /\ UNCHANGED <<analysisData, settings, materials, earlyEvent, lastOp, listenerSettings>>
    /\ UNCHANGED <<serverVars, tableVars, displayVars, parserVars>>

handleInputChange(field, value) ==
    /\ localSettings # Null
    /\ localSettings' = [localSettings EXCEPT ![field] = value]
    /\ touched' = IF touched \subseteq {field} THEN {field} ELSE DOMAIN DefaultSettings
    /\ UNCHANGED <<analysisData, settings, materials, earlyEvent, lastOp, listenerSettings>>
    /\ UNCHANGED <<serverVars, tableVars, displayVars, parserVars>>

resetToDefaults ==
    /\ localSettings # Null
    /\ localSettings' = DefaultSettings
    /\ touched' = DOMAIN DefaultSettings
    /\ UNCHANGED <<analysisData, settings, materials, earlyEvent, lastOp, listenerSettings>>
    /\ UNCHANGED <<serverVars, tableVars, displayVars, parserVars>>

\* Apply Settings: onSettingsChange(localSettings), which is
\* handleSettingsChange of the quotation; the materials effect follows
applySettings ==
    /\ localSettings # Null
    /\ settings' = localSettings
    /\ materials' = MaterialsEffect(settings')
    /\ listenerSettings' = settings'
    /\ lastOp' = "apply"
    /\ UNCHANGED <<analysisData, earlyEvent, localSettings, touched>>
    /\ UNCHANGED <<serverVars, tableVars, displayVars, parserVars>>

(***************************************************************************)
(* The quotation with its settings tab, under 'icf-dimension-updated'      *)
(* events of any type and value.                                           *)
(***************************************************************************)
\* an 'icf-dimension-updated' event reaches the quotation
icfDimensionUpdated(type, value) ==
    /\ handleDimensionUpdate(type, value)
    /\ UNCHANGED <<serverVars, tableVars, displayVars, parserVars>>

SettingsFiles == {BaseFile, EmptyFile}

InitSettings ==
    /\ file \in SettingsFiles
    /\ pc = [c \in Clients |-> "idle"]
    /\ req = [c \in Clients |-> Null]
    /\ snap = [c \in Clients |-> Null]
    /\ resp = [c \in Clients |-> Null]
    /\ posts = 0
    /\ InitPage
    /\ InitParser

NextSettings ==
    \/ QuotationFetch
    \/ \E v \in ThicknessChoices : icfDimensionUpdated("wall_thickness", v)
    \/ \E v \in HeightChoices : icfDimensionUpdated("wall_height", v)
    \/ openSettings
    \/ closeSettings
    \/ \E c \in InputChoices : handleInputChange(c[1], c[2])
    \/ resetToDefaults
    \/ applySettings

SpecSettings == InitSettings /\ [][NextSettings]_vars

\* C17: a field set by Apply Settings is not reset by a later change of the
\* other dimension and is recomputed when its own dimension changes: a wall
\* thickness event leaves verticalRebarSpacing, bracingSpacing and
\* horizontalRebarCourses as they are, a wall height event leaves
\* concreteCore as it is and recomputes horizontalRebarCourses and
\* bracingSpacing.
C17_OverridesKept ==
    [][/\ \A v \in ThicknessChoices :
              icfDimensionUpdated("wall_thickness", v) =>
                  /\ settings'.verticalRebarSpacing = settings.verticalRebarSpacing
                  /\ settings'.bracingSpacing = settings.bracingSpacing
                  /\ settings'.horizontalRebarCourses = settings.horizontalRebarCourses
       /\ \A v \in HeightChoices :
              icfDimensionUpdated("wall_height", v) =>
                  /\ settings'.concreteCore = settings.concreteCore
                  /\ settings'.horizontalRebarCourses = CoursesFor(v)
                  /\ settings'.bracingSpacing = IF v > 9 THEN 4 ELSE 5]_vars

\* spacing 36, bracing 6 and 6 courses, which only Apply Settings can set,
\* are still the settings after a wall thickness event
C17_Witness ==
    /\ lastOp = "wall_thickness"
    /\ settings.verticalRebarSpacing = 36
    /\ settings.bracingSpacing = 6
    /\ settings.horizontalRebarCourses = 6
    /\ settings.concreteCore \in ThicknessChoices

\* C18: a wall height event with value h makes the quotation recompute its
\* materials with h as the wall height: verticalRebar.lengthFeet is
\* verticalRebar.count * h, bracing.count is
\* ceil(h / bracingSpacing * total_linear_feet / 20) and labor.pourTimeHours
\* is h / 4.
C18_MaterialsUseNewHeight ==
    [][(handleSaveWallHeight /\ analysisData # Null /\ analysisData.has_icf_metrics)
          => /\ materials'.verticalRebar.lengthFeet
                    = NumTimes(materials'.verticalRebar.count, wallHeightInput)
             /\ materials'.bracing.count
                    = NumCeil(QuotedTotal(analysisData), wallHeightInput,
                              200 * settings'.bracingSpacing)
             /\ materials'.labor.pourTimeHours_4 = wallHeightInput]_vars

(***************************************************************************)
(* Properties of the metrics display.                                      *)
(***************************************************************************)
\* C19: the displayed metrics are regenerated when an assumption changes:
\* in every state of the metrics display, also after the user saved a wall
\* height or a wall thickness, the displayed wall_area_sqft is the displayed
\* total_linear_feet times the displayed wall height, and the displayed
\* concrete_volume_cuyd is total * height * thickness / 27 for the displayed
\* height and thickness.
C19_DisplayedMetricsRegenerated ==
    (metrics # Null /\ metrics.icf_metrics # Null /\ ShownThickness(metrics) # Absent)
        => LET m == metrics.icf_metrics
           IN  /\ m.wall_area_sqft = Num(m.total_linear_feet.v * ShownHeight(metrics))
               /\ m.concrete_volume_cuyd
                      = Num(RoundDiv(m.total_linear_feet.v * ShownHeight(metrics)
                                         * ShownThickness(metrics),
                                     12 * CubicFeetPerCubicYard))

(***************************************************************************)
(* The quotation of an analysis without walls.                             *)
(***************************************************************************)
\* C20: for an analysis with zero corners and zero walls (total_linear_feet
\* 0, total_corners 0, wall_area_sqft 0) and any settings reachable from the
\* defaults, every quantity of the materials is zero, none of them NaN or
\* infinite: panel counts and area, rebar counts and lengths, concrete
\* volumes, accessory counts, bucks linear feet, crewDays and pourTimeHours.
C20_EmptyAnalysisQuotesZero ==
    (/\ analysisData # Null
     /\ analysisData.has_icf_metrics
     /\ analysisData.icf_metrics.total_linear_feet = Num(0)
     /\ analysisData.icf_metrics.total_corners = 0
     /\ analysisData.icf_metrics.wall_area_sqft = Num(0))
        => /\ materials.standardPanels.count = Num(0)
           /\ materials.standardPanels.areaSqft_144 = Num(0)
           /\ materials.cornerPanels.count = 0
           /\ materials.verticalRebar.count = Num(0)
           /\ materials.verticalRebar.lengthFeet = Num(0)
           /\ materials.horizontalRebar.count = 0
           /\ materials.horizontalRebar.lengthFeet_10 = Num(0)
           /\ materials.concrete.volumeCuYd_60000 = Num(0)
           /\ materials.concrete.volumeWithWaste_6000000 = Num(0)
           /\ materials.formAlignmentSystems.count = Num(0)
           /\ materials.bracing.count = Num(0)
           /\ materials.windowDoorBucks.linearFeet_100 = Num(0)
           /\ materials.fasteningStrips.count = Num(0)
           /\ materials.labor.crewDays_6500 = Num(0)
           /\ materials.labor.pourTimeHours_4 = 0

(***************************************************************************)
(* One client of the update-wall route that sends a request and, once it   *)
(* was answered, sends the same request again.                             *)
(***************************************************************************)
\* the first request of the client
FirstRequest(c, wallId, newLength) ==
    /\ posts = 0
    /\ Request(c, wallId, newLength)

\* the request that was answered 200 is sent once more, unchanged
Resubmit(c) ==
    /\ pc[c] = "done"
    /\ resp[c].status = 200
    /\ posts < MaxPosts
    /\ posts' = posts + 1
    /\ PostReceive(c, req[c].wallId, req[c].newLength)
    /\ UNCHANGED <<pageVars, parserVars>>

NextRepeat ==
    \/ \E wallId \in RequestWallIds, newLength \in RequestLengths :
           FirstRequest("api", wallId, newLength)
    \/ PostUpdate("api")
    \/ Resubmit("api")

SpecRepeat == Init /\ [][NextRepeat]_vars

\* C21: recomputing the metrics from the same geometry gives the same
\* result: when the same update-wall request (same wallId, same newLength)
\* is handled twice in a row, the second handling leaves the stored analysis
\* exactly as the first left it; nothing accumulates into total_linear_feet,
\* wall_area_sqft or concrete_volume_cuyd.
C21_RepeatedUpdateIdempotent ==
    [][(Succeeds("api") /\ posts >= 2) => file' = file]_vars

\* the same request for an existing wall of an analysis with icf_metrics has
\* been handled twice, and it gave the wall a length it did not have at first
C21_Witness ==
    /\ posts = 2
    /\ pc["api"] = "done"
    /\ resp["api"].status = 200
    /\ file.has_icf_metrics
    /\ resp["api"].updatedWall.length = formatFeetInches(Num(1), Num(6))

(***************************************************************************)
(* The walls table and the route serving it: the numbers typed into the    *)
(* feet and inches inputs, and requests that fail on their way.            *)
(***************************************************************************)
\* the inputs take any integer: min and max of an <input type="number">
\* do not restrict what onChange receives
TypedFeet == {1}

TypedInches == {6, 12}

\* fetch rejects: the request of the walls table gets no response
NetworkError ==
    /\ pc["table"] = "sent"
    /\ pc' = [pc EXCEPT !["table"] = "done"]
    /\ resp' = [resp EXCEPT !["table"] = [status |-> 0]]
    /\ UNCHANGED <<file, req, snap, posts, pageVars, parserVars>>

NextTable ==
    \/ TableFetch
    \/ \E k \in 1..NumWalls : handleEditClick(k)
    \/ \E v \in TypedFeet : setEditFeet(v)
    \/ \E v \in TypedInches : setEditInches(v)
    \/ handleCancelEdit
    \/ \E wallId \in RequestWallIds : handleSaveEdit(wallId)
    \/ PostFromTable
    \/ NetworkError
    \/ PostUpdate("table")
    \/ saveResponse

SpecTable == Init /\ [][NextTable]_vars

\* C22: no out-of-range length is ever produced: after any sequence of edits
\* made through the walls table and the update-wall route, every stored
\* wall.length reads F'-I" with an integer F >= 0 and an integer I in 0..11.
C22_StoredLengthsInRange == AllDisplayLengths(file.walls)

(***************************************************************************)
(* The update-wall route on stored analyses it cannot handle: the file is  *)
(* missing, or the last wall carries no length.                            *)
(***************************************************************************)
FailureFiles ==
    {NoFile}
      \cup {[f EXCEPT !.walls[NumWalls].length = NoLength] : f \in InitialFiles}

InitFailure ==
    /\ file \in FailureFiles
    /\ pc = [c \in Clients |-> "idle"]
    /\ req = [c \in Clients |-> Null]
    /\ snap = [c \in Clients |-> Null]
    /\ resp = [c \in Clients |-> Null]
    /\ posts = 0
    /\ InitPage
    /\ InitParser

SpecFailure == InitFailure /\ [][Next]_vars

\* the handler of client c ends in this step with an exception: the stored
\* analysis cannot be read, or the metrics exist and a wall that the request
\* does not address has no length
Throws(c) ==
    \/ /\ pc[c] \in {"idle", "done"}
       /\ pc'[c] = "done"
       /\ req'[c] # Null
       /\ req'[c].wallId # 0
       /\ req'[c].newLength # <<>>
       /\ posts' = posts + 1
       /\ file = NoFile
    \/ /\ pc[c] = "read"
       /\ pc'[c] = "done"
       /\ snap[c].has_icf_metrics
       /\ \E k \in 1..Len(snap[c].walls) : snap[c].walls[k].id = req[c].wallId
       /\ \E k \in 1..Len(snap[c].walls) :
              /\ snap[c].walls[k].id # req[c].wallId
              /\ snap[c].walls[k].length = NoLength

\* C23: every failure inside the recalculation is surfaced and leaves no
\* partial state: when reading the stored analysis or recomputing the
\* metrics throws, the request is answered with an error that carries the
\* error's details, and analysis_results.json is not written, so the length
\* overwritten in memory is not stored.
C23_FailureSurfaced ==
    [][\A c \in Clients :
          Throws(c) => /\ resp'[c].status = 500
                       /\ resp'[c].details # ""
                       /\ file' = file]_vars

\* a request for an existing wall of an analysis with icf_metrics was
\* answered 500 because another wall has no length
C23_Witness ==
    \E c \in Clients :
        /\ pc[c] = "done"
        /\ resp[c].status = 500
        /\ file # NoFile
        /\ file.has_icf_metrics
        /\ \E k \in 1..Len(file.walls) : file.walls[k].id = req[c].wallId
        /\ file.walls[NumWalls].length = NoLength

(***************************************************************************)
(* The quotation under 'icf-dimension-updated' events that may arrive      *)
(* before it has rendered the settings of the event before.                *)
(***************************************************************************)
DimensionEvents ==
    ({"wall_thickness"} \X ThicknessChoices) \cup ({"wall_height"} \X HeightChoices)

\* an event reaches the listener that is registered at this moment
icfDimensionDispatched(type, value) ==
    /\ dispatchDimensionUpdate(type, value)
    /\ UNCHANGED <<materials, listenerSettings>>
    /\ UNCHANGED <<serverVars, tableVars, displayVars, parserVars>>

\* the quotation renders the settings that were set: the materials effect
\* runs and the effect of lines 196-241 registers a listener closing over
\* them
renderQuotation ==
    /\ listenerSettings # settings
    /\ listenerSettings' = settings
    /\ materials' = MaterialsEffect(settings)
    /\ UNCHANGED <<analysisData, settings, earlyEvent, lastOp, localSettings, touched>>
    /\ UNCHANGED <<serverVars, tableVars, displayVars, parserVars>>

NextEvents ==
    \/ QuotationFetch
    \/ \E e \in DimensionEvents : icfDimensionDispatched(e[1], e[2])
    \/ renderQuotation

SpecEvents == InitSettings /\ [][NextEvents]_vars

\* C24: no dimension event's adjustment is lost: when an event of one
\* dimension is dispatched after an event of the other and before the
\* quotation has rendered again, the settings that result are those of the
\* second event applied to the settings the first one produced.
C24_NoEventLost ==
    [][\A e \in DimensionEvents :
          (/\ icfDimensionDispatched(e[1], e[2])
           /\ listenerSettings # settings
           /\ lastOp \in {"wall_thickness", "wall_height"}
           /\ lastOp # e[1])
              => settings' = DimensionUpdate(settings, e[1], e[2])]_vars

(***************************************************************************)
(* Apply Settings after a dimension event.                                 *)
(***************************************************************************)
\* C25: Apply Settings never reverts an auto-adjustment: when the settings
\* were last set by a dimension event and the user changed at most one field
\* X in the panel, Apply Settings leaves every field other than X as the
\* event set it.
C25_ApplyKeepsAutoAdjustment ==
    [][(/\ applySettings
        /\ lastOp \in {"wall_thickness", "wall_height"}
        /\ touched # DOMAIN DefaultSettings)
           => \A f \in (DOMAIN settings) \ touched : settings'[f] = settings[f]]_vars

(***************************************************************************)
(* Properties of the walls table while and after a save.                   *)
(***************************************************************************)
\* handleSaveEdit runs from the response on in this step
SaveCompletes == pc["table"] = "done" /\ isSaving /\ pc'["table"] = "idle"

\* C26: after any completed save attempt the wall lengths held in the table
\* are the lengths stored on the server: a failed request (404, 500, no
\* response) does not leave the optimistic change in the table; and a failed
\* save dispatches no 'wall-updated' event.
C26_TableMatchesServer ==
    [][SaveCompletes
          => /\ \A k \in 1..Len(walls') : walls'[k].length = file'.walls[k].length
             /\ resp["table"].status # 200
                    => (metrics' = metrics /\ metricsFetch' = metricsFetch)]_vars

\* C27: the completion of a save of wall A does not discard an edit session
\* on another wall: when the user started to edit wall B while the save of A
\* was in flight, editingWall is still B after the save completed, and the
\* feet and inches entered for B are kept.
C27_OtherEditSessionKept ==
    [][(SaveCompletes /\ editingWall # NoWall /\ editingWall # req["table"].wallId)
          => (editingWall' = editingWall /\ editFeet' = editFeet
                 /\ editInches' = editInches)]_vars

\* C28: the walls table has at most one update-wall request in flight:
\* isSaving is true exactly while a request of the table is on its way or
\* answered and not yet handled, so that Save and Cancel, disabled while
\* isSaving is true, cannot start a second one; and every completed attempt,
\* successful or failed, resets isSaving to false.
C28_OneSaveInFlight ==
    [][/\ isSaving <=> (pc["table"] # "idle")
       /\ isSaving' <=> (pc'["table"] # "idle")
       /\ (pc["table"] # "sent" /\ pc'["table"] = "sent") => ~isSaving
       /\ (editingWall # NoWall /\ editingWall' = NoWall /\ isSaving) => SaveCompletes
       /\ SaveCompletes => ~isSaving']_vars

\* a second save is in flight after the first attempt was completed
C28_Witness ==
    /\ posts = 2
    /\ isSaving
    /\ pc["table"] = "sent"
    /\ editingWall # NoWall

(***************************************************************************)
(* The standard panels of the quotation.                                   *)
(***************************************************************************)
\* C29: standardPanels.count and standardPanels.areaSqft are never
\* negative, for every total_linear_feet >= 0, total_corners >= 0 and
\* panelWidth > 0, also when the corner allowance of 2 ft per corner exceeds
\* the total length.
C29_StandardPanelsNotNegative ==
    (materials # Null /\ settings.panelWidth > 0)
        => /\ ~materials.standardPanels.count.nan
           /\ materials.standardPanels.count.v >= 0
           /\ ~materials.standardPanels.areaSqft_144.nan
           /\ materials.standardPanels.areaSqft_144.v >= 0

(***************************************************************************)
(* Requests for walls that exist.                                          *)
(***************************************************************************)
\* C30: every wall of the analysis can be edited through the update-wall
\* route: a request whose wallId is the id of a stored wall, the id 0
\* included, and whose newLength is not empty is not answered "Missing
\* required parameters" (400) but updates that wall.
C30_ExistingWallUpdated ==
    [][\A c \in Clients :
          (/\ pc[c] \in {"idle", "done"}
           /\ posts' = posts + 1
           /\ req'[c] # Null
           /\ req'[c] # req[c] \/ pc'[c] # pc[c] \/ resp'[c] # resp[c]
           /\ req'[c].newLength # <<>>
           /\ \E k \in 1..Len(file.walls) : file.walls[k].id = req'[c].wallId)
              => pc'[c] = "read"]_vars

====
